---------------------------- MODULE Spec2Model ----------------------------
(***************************************************************************)
(* Model of the reverse proxy worker in src/src/index.js.                  *)
(*                                                                         *)
(* Text is a sequence of tokens.  Each token stands for a literal piece of *)
(* the strings the worker handles and is never split:                      *)
(*   "https:" "http:"  the scheme with its colon                           *)
(*   "//W"             //www.community-christian.net  (the origin host)    *)
(*   "//M"             //sharpsburgcounseling.com     (the public host)    *)
(*   "//T"             //cdn.example.com              (a third party)      *)
(*   "//"              two slashes with no host after them                 *)
(*   "B"               the base path    /sharpsburg-counseling             *)
(*   "/" "x"           a single slash, an ordinary character               *)
(*   "?" "#"           start of the query, start of the fragment           *)
(*   " "               whitespace (a delimiter of the rewrite patterns)    *)
(* Lengths (buffer.length, CARRY) are counted in tokens.                   *)
(***************************************************************************)
EXTENDS Integers, Sequences, FiniteSets, TLC

VARIABLES
    \* ---- one transformStream() pipeline (index.js:186-216) ----
    state,      \* "off" | "idle" | "streaming" | "closed" | "errored"
    received,   \* decoded input handed to transform() so far
    buffer,     \* this.buffer
    out,        \* sequence of chunks given to controller.enqueue
    consumed,   \* number of input tokens already passed to rewriterFn
    flushRan,   \* flush() has been called
    \* ---- one application of the URL functions ----
    upc,        \* "off" | "input" | "rebased" | "mapped" | "rewritten"
    raw,        \* argument of rewriteAbsoluteUrl
    rebased,    \* its result
    mapped,     \* origin path the dispatcher derives when rebased is requested
    ruleOut,    \* raw as text, after the first replace of rewriteTextStreaming
    textOut,    \* rewriteTextStreaming(raw)
    \* ---- one run of the fetch handler (index.js:15-71) ----
    pc,         \* "off" | "idle" | "awaiting" | "returned" | "threw"
    req,        \* the inbound request
    target,     \* the outbound request: url pieces, method, headers, body
    attempts,   \* number of calls of fetch()
    originResp, \* <<>> or <<the response fetch() resolved with>>
    response    \* <<>> or <<the Response returned>>

svars == <<state, received, buffer, out, consumed, flushRan>>
uvars == <<upc, raw, rebased, mapped, ruleOut, textOut>>
dvars == <<pc, req, target, attempts, originResp, response>>
vars == <<svars, uvars, dvars>>

(* ------------------------------ bounds -------------------------------- *)

\* const CARRY = 1024 (index.js:189), scaled down and counted in tokens
CARRY == 2
\* longest chunk the origin delivers at once
MaxChunk == 2
\* longest response body, in tokens: long enough for two cuts
MaxLen == 8
\* longest path tail of a URL given to rewriteAbsoluteUrl
MaxPath == 3
\* longest path of an inbound request
MaxReqPath == 2

(* ------------------------- sequence helpers --------------------------- *)

Min(a, b) == IF a < b THEN a ELSE b

SeqsUpTo(S, n) == UNION {[1..k -> S] : k \in 0..n}

\* String.prototype.startsWith
StartsWith(s, p) == Len(s) >= Len(p) /\ SubSeq(s, 1, Len(p)) = p

\* String.prototype.slice(n), n >= 0
SliceFrom(s, n) == SubSeq(s, n + 1, Len(s))

\* the last index j >= k-1 such that none of s[k..j] is in stops
RunEnd(s, k, stops) ==
    CHOOSE j \in (k - 1)..Len(s) :
        /\ \A m \in k..j : s[m] \notin stops
        /\ j = Len(s) \/ s[j + 1] \in stops

RECURSIVE Concat(_)
Concat(chunks) ==
    IF chunks = <<>> THEN <<>> ELSE Head(chunks) \o Concat(Tail(chunks))

(* --------------------------- configuration ---------------------------- *)

MY_DOMAIN == <<"https:", "//M">>
ORIGIN_DOMAIN == <<"https:", "//W">>
ORIGIN_BASE == <<"B">>

\* new URL(ORIGIN_DOMAIN).host, written with the slashes that precede it
OriginHost == <<"//W">>

Schemes == {"https:", "http:"}
\* "//" followed by a host or by nothing
Authorities == {"//W", "//M", "//T", "//"}
\* tokens whose first character is "/"
SlashStart == {"/", "B"} \cup Authorities
\* the characters excluded by [^\s"'()<] that the alphabet has
Delims == {" "}

(* ------------------------ URL parsing (WHATWG) ------------------------ *)

\* new URL(s, ORIGIN_DOMAIN) or new URL(s, MY_DOMAIN): baseHost is the host of
\* the base.  Covers "scheme // host path ?query #fragment" and inputs without
\* a scheme, which are resolved against the base (whose path is "/").  The
\* host runs up to the first "/", "?" or "#"; an empty host is a TypeError
\* (ok = FALSE).  An empty path of an http(s) URL reads back as "/".
ParseUrl(s, baseHost) ==
    LET abs == Len(s) >= 2 /\ s[1] \in Schemes /\ s[2] \in Authorities
        hEnd == IF abs THEN RunEnd(s, 3, SlashStart \cup {"?", "#"}) ELSE 0
        pEnd == RunEnd(s, hEnd + 1, {"?", "#"})
        rawPath == SubSeq(s, hEnd + 1, pEnd)
        qEnd == IF pEnd < Len(s) /\ s[pEnd + 1] = "?"
                THEN RunEnd(s, pEnd + 2, {"#"}) ELSE pEnd
        q == SubSeq(s, pEnd + 1, qEnd)
        h == SubSeq(s, qEnd + 1, Len(s))
    IN  [ok |-> IF abs THEN SubSeq(s, 2, hEnd) # <<"//">>
                ELSE (s = <<>> \/ s[1] \notin Schemes),
         host |-> IF abs THEN SubSeq(s, 2, hEnd) ELSE baseHost,
         pathname |-> IF rawPath = <<>> THEN <<"/">>
                      ELSE IF Head(rawPath) \in SlashStart THEN rawPath
                      ELSE <<"/">> \o rawPath,
         search |-> IF Len(q) <= 1 THEN <<>> ELSE q,
         hash |-> IF Len(h) <= 1 THEN <<>> ELSE h]

(* --------------------------- URL re-basing ---------------------------- *)

\* raw after "if (raw.startsWith("//")) raw = "https:" + raw" (index.js:156)
NormalizeRaw(r) ==
    IF r # <<>> /\ Head(r) \in Authorities THEN <<"https:">> \o r ELSE r

\* what the host-mismatch return and the catch block hand back (both
\* "return raw", index.js:160 and 174, after raw was reassigned on line 156)
ReturnedUnrewritten(r) == NormalizeRaw(r)

rewriteAbsoluteUrl(r) ==
    LET u == ParseUrl(NormalizeRaw(r), OriginHost)
        path == u.pathname
    IN  IF ~u.ok THEN ReturnedUnrewritten(r)
        ELSE IF u.host # OriginHost THEN ReturnedUnrewritten(r)
        ELSE IF StartsWith(path, ORIGIN_BASE)
        THEN LET rest == SliceFrom(path, Len(ORIGIN_BASE))
                 newPath == IF rest = <<>> THEN <<"/">> ELSE rest
             IN  MY_DOMAIN \o newPath \o u.search \o u.hash
        ELSE LET newPath == ORIGIN_BASE \o
                     (IF Head(path) \in SlashStart THEN path ELSE <<"/">> \o path)
             IN  MY_DOMAIN \o newPath \o u.search \o u.hash

(* ----------------------- pattern rewrite engine ----------------------- *)

\* Does the fixed part of regular expression number rule match at index i?
\*   1  https?: //W B ([^\s"'()<]*)       index.js:222
\*   2  https?: //W (\/[^\s"'()<]*)       index.js:229
\*   3  //W B ([^\s"'()<]*)               index.js:235
\*   4  //W (\/[^\s"'()<]*)               index.js:239
MatchesAt(rule, text, i) ==
    CASE rule = 1 -> /\ i + 2 <= Len(text)
                     /\ text[i] \in Schemes /\ text[i + 1] = "//W"
                     /\ text[i + 2] = "B"
      [] rule = 2 -> /\ i + 2 <= Len(text)
                     /\ text[i] \in Schemes /\ text[i + 1] = "//W"
                     /\ text[i + 2] \in SlashStart
      [] rule = 3 -> /\ i + 1 <= Len(text)
                     /\ text[i] = "//W" /\ text[i + 1] = "B"
      [] rule = 4 -> /\ i + 1 <= Len(text)
                     /\ text[i] = "//W" /\ text[i + 1] \in SlashStart

\* index of the first token of the capture group
GroupStart(rule, i) ==
    CASE rule = 1 -> i + 3 [] rule = 2 -> i + 2
      [] rule = 3 -> i + 2 [] rule = 4 -> i + 1

\* index of the last token of the (greedy) match
MatchEnd(rule, text, i) ==
    IF rule \in {1, 3} THEN RunEnd(text, GroupStart(rule, i), Delims)
    ELSE RunEnd(text, GroupStart(rule, i) + 1, Delims)

\* the replacement callback of each rule
Replacement(rule, group) ==
    IF rule \in {1, 3} THEN MY_DOMAIN \o group
    ELSE MY_DOMAIN \o ORIGIN_BASE \o group

\* String.prototype.replace with a /g expression: leftmost matches, left to
\* right, each search resuming after the previous match
RECURSIVE ReplaceAll(_, _, _)
ReplaceAll(rule, text, i) ==
    IF i > Len(text) THEN <<>>
    ELSE IF MatchesAt(rule, text, i)
    THEN LET e == MatchEnd(rule, text, i)
         IN  Replacement(rule, SubSeq(text, GroupStart(rule, i), e))
                 \o ReplaceAll(rule, text, e + 1)
    ELSE <<text[i]>> \o ReplaceAll(rule, text, i + 1)

\* Rules 5 to 9 (meta refresh, url(), location =, fetch(, open() need the
\* literals http-equiv, url(, location, fetch or open, which no token of the
\* alphabet contains: on these texts they change nothing.
rewriteTextStreaming(text) ==
    ReplaceAll(4, ReplaceAll(3, ReplaceAll(2, ReplaceAll(1, text, 1), 1), 1), 1)

(* ---------------------- chunked stream transformer -------------------- *)

\* the tokens of a response body: "https: //W B" is rewritten by rule 1,
\* "https: //W //W" by rule 2, "//W B" by rule 3, "//W //W" by rule 4
StreamAlphabet == {"https:", "//W", "B", " "}
Chunks == SeqsUpTo(StreamAlphabet, MaxChunk) \ {<<>>}

rewriterFn(text) == rewriteTextStreaming(text)

\* a cut that waits for three carry windows
MustCut_Late(buf) == Len(buf) > CARRY * 3

\* "this.buffer.length > CARRY * 2" (index.js:199)
MustCut(buf) == Len(buf) > CARRY * 2
\* a tail one token short: slice(-(CARRY - 1))
keepTail_Short(buf) == SubSeq(buf, Len(buf) - CARRY + 2, Len(buf))

\* this.buffer.slice(-CARRY)
keepTail(buf) == SubSeq(buf, Len(buf) - CARRY + 1, Len(buf))
\* this.buffer.slice(0, -CARRY)
head(buf) == SubSeq(buf, 1, Len(buf) - CARRY)

\* start(): this.buffer = ""; the body starts to be piped through
StreamStart ==
    /\ state = "idle"
    /\ state' = "streaming"
    /\ buffer' = <<>>
    /\ UNCHANGED <<received, out, consumed, flushRan>>
    /\ UNCHANGED <<uvars, dvars>>

\* transform(chunk, controller)
Transform(chunk) ==
    /\ state = "streaming"
    /\ Len(received) + Len(chunk) <= MaxLen
    /\ received' = received \o chunk
    /\ LET b == buffer \o chunk
       IN  IF MustCut(b)
           THEN /\ out' = Append(out, rewriterFn(head(b)))
                /\ consumed' = consumed + Len(head(b))
                /\ buffer' = keepTail(b)
           ELSE /\ buffer' = b
                /\ UNCHANGED <<out, consumed>>
    /\ UNCHANGED <<state, flushRan>>
    /\ UNCHANGED <<uvars, dvars>>

\* a transformer whose flush() also runs when the stream was aborted
FlushEnabled_AfterAbort == state \in {"streaming", "errored"}

\* The runtime calls flush() when the writable side is closed, which
\* pipeThrough (index.js:215) does when the origin body ends; a stream that
\* errored is never closed.
FlushEnabled == state = "streaming"

\* flush(controller)
Flush ==
    /\ FlushEnabled
    /\ flushRan' = TRUE
    /\ IF buffer # <<>>
       THEN /\ out' = Append(out, rewriterFn(buffer))
            /\ consumed' = consumed + Len(buffer)
       ELSE UNCHANGED <<out, consumed>>
    /\ state' = "closed"
    /\ UNCHANGED <<received, buffer>>
    /\ UNCHANGED <<uvars, dvars>>

\* The origin body errors or is aborted: pipeThrough aborts the writable side
\* and the readable side is errored; the transformer registers no callback for
\* this (index.js:191-213 has start, transform and flush only).
Abort ==
    /\ state = "streaming"
    /\ state' = "errored"
    /\ UNCHANGED <<received, buffer, out, consumed, flushRan>>
    /\ UNCHANGED <<uvars, dvars>>

InitStream ==
    /\ state = "idle" /\ received = <<>> /\ buffer = <<>> /\ out = <<>>
    /\ consumed = 0 /\ flushRan = FALSE

OffStream ==
    /\ state = "off" /\ received = <<>> /\ buffer = <<>> /\ out = <<>>
    /\ consumed = 0 /\ flushRan = FALSE

OffUrl ==
    /\ upc = "off" /\ raw = <<>> /\ rebased = <<>> /\ mapped = <<>>
    /\ ruleOut = <<>> /\ textOut = <<>>

OffDispatch ==
    /\ pc = "off" /\ req = <<>> /\ target = <<>> /\ attempts = 0
    /\ originResp = <<>> /\ response = <<>>

Init == InitStream /\ OffUrl /\ OffDispatch

Next ==
    \/ StreamStart
    \/ \E chunk \in Chunks : Transform(chunk)
    \/ Flush
    \/ Abort

Spec == Init /\ [][Next]_vars

(* ------------------- the URL functions, applied once ------------------ *)

\* the mapping without its startsWith guard
originPath_NoGuard(incomingPath) == ORIGIN_BASE \o incomingPath

\* lines 21-24 of the handler: the origin path of an incoming path
originPath(incomingPath) ==
    IF StartsWith(incomingPath, ORIGIN_BASE) THEN incomingPath
    ELSE ORIGIN_BASE \o incomingPath

PathTails == SeqsUpTo({"/", "B", "x"}, MaxPath)
Searches == {<<>>, <<"?", "x">>, <<"?", "//W">>}
Hashes == {<<>>, <<"#", "x">>}

\* scheme://host..., //host... ; a tail that starts with "x" extends the host
AbsoluteUrls ==
    {pre \o <<h>> \o t \o q \o f :
        pre \in {<<"https:">>, <<"http:">>, <<>>},
        h \in {"//W", "//T"}, t \in PathTails, q \in Searches, f \in Hashes}

\* inputs without scheme and host (a leading "/" followed by another slash
\* would read as "//" and is left out)
RelativeUrls ==
    {t \o q \o f :
        t \in {p \in PathTails :
                  p # <<>> /\ ~(Len(p) >= 2 /\ p[1] = "/" /\ p[2] \in SlashStart)},
        q \in Searches, f \in Hashes}

\* inputs that new URL() rejects: no host
UnparsableUrls == {<<"//">>, <<"https:", "//">>}

RawUrls == AbsoluteUrls \cup RelativeUrls \cup UnparsableUrls

\* rewriteAbsoluteUrl(raw)
Rebase ==
    /\ upc = "input"
    /\ rebased' = rewriteAbsoluteUrl(raw)
    /\ upc' = "rebased"
    /\ UNCHANGED <<raw, mapped, ruleOut, textOut>>
    /\ UNCHANGED <<svars, dvars>>

\* the rewritten URL is requested: url = new URL(request.url), then the path
\* mapping of lines 21-24
MapBack ==
    /\ upc = "rebased"
    /\ mapped' = originPath(ParseUrl(rebased, <<"//M">>).pathname)
    /\ upc' = "mapped"
    /\ UNCHANGED <<raw, rebased, ruleOut, textOut>>
    /\ UNCHANGED <<svars, dvars>>

\* rewriteTextStreaming(raw): raw appears as text of a response body
RewriteText ==
    /\ upc = "mapped"
    /\ ruleOut' = ReplaceAll(1, raw, 1)
    /\ textOut' = rewriteTextStreaming(raw)
    /\ upc' = "rewritten"
    /\ UNCHANGED <<raw, rebased, mapped>>
    /\ UNCHANGED <<svars, dvars>>

InitUrl ==
    /\ upc = "input" /\ raw \in RawUrls /\ rebased = <<>> /\ mapped = <<>>
    /\ ruleOut = <<>> /\ textOut = <<>>
    /\ OffStream /\ OffDispatch

NextUrl == Rebase \/ MapBack \/ RewriteText

SpecUrl == InitUrl /\ [][NextUrl]_vars

(* ---------------------------- header policy --------------------------- *)

\* A Headers object is a function from lower-case header names to values.
hset(h, k, v) == [x \in (DOMAIN h) \cup {k} |-> IF x = k THEN v ELSE h[x]]
hdelete(h, k) == [x \in (DOMAIN h) \ {k} |-> h[x]]

DroppedRequestHeaders ==
    {"host", "cf-connecting-ip", "x-forwarded-for", "x-real-ip", "content-length",
     "connection", "keep-alive", "proxy-authenticate", "proxy-authorization",
     "te", "trailers", "transfer-encoding", "upgrade"}

buildForwardHeaders(reqHeaders) ==
    hset([k \in (DOMAIN reqHeaders) \ DroppedRequestHeaders |-> reqHeaders[k]],
         "host", OriginHost)

\* copyHeaders(headers, keepLowercase); keep = {} stands for null
copyHeaders(headers, keep) ==
    IF keep = {} THEN headers
    ELSE [k \in (DOMAIN headers) \cap keep |-> headers[k]]

RECURSIVE SetPairs(_, _)
SetPairs(h, pairs) ==
    IF pairs = <<>> THEN h
    ELSE SetPairs(hset(h, Head(pairs)[1], Head(pairs)[2]), Tail(pairs))

setCommonHeaders(headers, pairs) ==
    LET h1 == hdelete(headers, "content-security-policy")
        h2 == hdelete(h1, "content-security-policy-report-only")
        h3 == hset(h2, "x-proxy-by", <<"cf-worker-mask">>)
        h4 == hset(h3, "access-control-allow-origin", MY_DOMAIN)
        h5 == hset(h4, "access-control-allow-credentials", <<"true">>)
    IN  SetPairs(h5, pairs)

ToLowerTok(t) == IF t = "TEXT/" THEN "text/" ELSE t

shouldTransform(contentType) ==
    \E i \in 1..Len(contentType) :
        ToLowerTok(contentType[i]) \in
            {"text/", "application/javascript", "application/x-javascript",
             "application/json", "application/xml", "image/svg+xml"}

\* ct.split(";")[0].trim() + "; charset=utf-8"
canonicalizeContentType(ct) ==
    SubSeq(ct, 1, RunEnd(ct, 1, {";"})) \o <<"; charset=utf-8">>

\* a pass-through that forwards the origin's headers untouched
passthrough_RawHeaders(resp) ==
    [status |-> resp.status, body |-> "origin", headers |-> resp.headers]

passthrough(resp) ==
    [status |-> resp.status, body |-> "origin",
     headers |-> setCommonHeaders(resp.headers, <<>>)]

(* --------------------------- request dispatcher ----------------------- *)

ReqPaths == {p \in SeqsUpTo({"/", "B", "x"}, MaxReqPath) :
                p # <<>> /\ p[1] \in SlashStart}

Requests ==
    {[method |-> m, pathname |-> p, search |-> q,
      headers |-> [k \in {"host"} \cup hs |-> <<"v">>]] :
        m \in {"GET", "POST"}, p \in ReqPaths, q \in {<<>>, <<"?", "x">>},
        hs \in SUBSET {"connection", "cookie"}}

\* response headers the origin may send besides location and content-type
PlainOriginHeaders ==
    {"content-security-policy", "content-security-policy-report-only",
     "access-control-allow-origin", "x-proxy-by"}
\* <<>> is no header, <<v>> a header of value v (an empty Location included)
LocationOptions ==
    {<<>>, <<<<>>>>, <<ORIGIN_DOMAIN \o <<"B", "/", "x">>>>,
     <<<<"//T", "/", "x">>>>}
ContentTypeOptions ==
    {<<>>, <<<<"text/", "html">>>>, <<<<"TEXT/", "html", ";", "charset=x">>>>,
     <<<<"image/png">>>>}

OriginResponses ==
    {[status |-> st,
      headers |-> [k \in ps \cup (IF loc = <<>> THEN {} ELSE {"location"})
                            \cup (IF ct = <<>> THEN {} ELSE {"content-type"}) |->
                      IF k = "location" THEN loc[1]
                      ELSE IF k = "content-type" THEN ct[1]
                      ELSE <<"o">>]] :
        st \in {200, 302}, ps \in SUBSET PlainOriginHeaders,
        loc \in LocationOptions, ct \in ContentTypeOptions}

\* lines 16-35: map the path, build the outbound request, call fetch()
HandleRequest(request) ==
    /\ pc = "idle"
    /\ req' = <<request>>
    /\ target' = <<[path |-> originPath(request.pathname),
                    url |-> ORIGIN_DOMAIN \o originPath(request.pathname)
                                \o request.search,
                    method |-> request.method,
                    headers |-> buildForwardHeaders(request.headers),
                    body |-> IF request.method \in {"GET", "HEAD"}
                             THEN "null" ELSE "request body",
                    redirect |-> "manual"]>>
    /\ attempts' = attempts + 1
    /\ pc' = "awaiting"
    /\ UNCHANGED <<originResp, response>>
    /\ UNCHANGED <<svars, uvars>>

\* lines 38-70: the Response built from what fetch() resolved with
BuildResponse(resp) ==
    LET hs == resp.headers
        loc == IF "location" \in DOMAIN hs THEN hs["location"] ELSE <<>>
        ct == IF "content-type" \in DOMAIN hs THEN hs["content-type"] ELSE <<>>
    IN  IF resp.status >= 300 /\ resp.status < 400
        THEN IF loc # <<>>
             THEN [status |-> resp.status, body |-> "null",
                   headers |-> setCommonHeaders(
                       copyHeaders(hs, {"location"}),
                       <<<<"location", rewriteAbsoluteUrl(loc)>>>>)]
             ELSE passthrough(resp)
        ELSE IF shouldTransform(ct)
        THEN [status |-> resp.status, body |-> "transformed",
              headers |-> setCommonHeaders(
                  copyHeaders(hs, {}),
                  <<<<"content-type", canonicalizeContentType(ct)>>>>)]
        ELSE passthrough(resp)

\* fetch() resolves and the handler returns
FetchResolves(resp) ==
    /\ pc = "awaiting"
    /\ originResp' = <<resp>>
    /\ response' = <<BuildResponse(resp)>>
    /\ pc' = "returned"
    /\ UNCHANGED <<req, target, attempts>>
    /\ UNCHANGED <<svars, uvars>>

\* fetch() rejects: "await fetch(...)" (line 30) is in no try block, so the
\* exception leaves the handler and no Response is constructed
FetchRejects ==
    /\ pc = "awaiting"
    /\ pc' = "threw"
    /\ UNCHANGED <<req, target, attempts, originResp, response>>
    /\ UNCHANGED <<svars, uvars>>

InitDispatch ==
    /\ pc = "idle" /\ req = <<>> /\ target = <<>> /\ attempts = 0
    /\ originResp = <<>> /\ response = <<>>
    /\ OffStream /\ OffUrl

NextDispatch ==
    \/ \E request \in Requests : HandleRequest(request)
    \/ \E resp \in OriginResponses : FetchResolves(resp)
    \/ FetchRejects

SpecDispatch == InitDispatch /\ [][NextDispatch]_vars

(* ======================= properties of the stream ===================== *)

\* the matches of rules 1-4 in a text: <<rule, first index>>
PatternStarts(text) ==
    {m \in (1..4) \X (1..Len(text)) : MatchesAt(m[1], text, m[2])}
PatternLen(text, m) == MatchEnd(m[1], text, m[2]) - m[2] + 1

\* C1: when a stream has ended, and the text it carried holds rewrite-target
\* patterns, none longer than CARRY, the concatenation of everything enqueued
\* equals rewriterFn applied once to the whole text, whatever the chunking.
C1_StreamingEqualsOneShot ==
    (/\ state = "closed"
     /\ PatternStarts(received) # {}
     /\ \A m \in PatternStarts(received) : PatternLen(received, m) <= CARRY)
    => Concat(out) = rewriterFn(received)

\* C2: the buffer is never longer than 2*CARRY when a transform() call
\* starts, that is, in every state between two calls.
C2_BufferBound == Len(buffer) <= 2 * CARRY

\* a chunk pushed the buffer over the limit and the buffer was cut back
C2_Witness == state = "streaming" /\ out # <<>> /\ Len(buffer) = CARRY

\* C3: once the inbound stream has errored the outbound stream stays errored,
\* flush() has not run and does not run, and nothing more is enqueued: the
\* content of the carry buffer is dropped.
C3_AbortDiscardsBuffer ==
    [][(state = "errored" \/ state' = "errored")
          => (state' = "errored" /\ out' = out /\ flushRan' = FALSE)]_vars

\* an abort after a head was emitted, with text still in the carry buffer
C3_Witness == state = "errored" /\ out # <<>> /\ buffer # <<>>

\* C9 as stated: before end-of-stream the buffer holds at least CARRY
\* trailing tokens of the input that have not been rewritten and emitted.
C9_AtLeastCarryHeld ==
    state = "streaming"
    => /\ Len(buffer) >= CARRY
       /\ buffer = SubSeq(received, consumed + 1, Len(received))

\* C9 amended: before end-of-stream the buffer is exactly the part of the
\* input not yet given to the rewriter, and it holds the last CARRY tokens
\* received, or all of them while fewer than CARRY have arrived; after
\* flush() everything received has been rewritten and emitted.
C9_CarryRetained ==
    /\ state = "streaming"
       => /\ Len(buffer) >= Min(CARRY, Len(received))
          /\ buffer = SubSeq(received, consumed + 1, Len(received))
    /\ state = "closed" => (flushRan /\ consumed = Len(received))

\* a head was emitted and a later chunk was appended to the retained tail
C9_Witness == state = "streaming" /\ consumed > 0 /\ Len(buffer) = CARRY + 1

(* ==================== properties of the URL functions ================= *)

IsAbsoluteForm(r) ==
    /\ r # <<>>
    /\ r[1] \in Authorities \/ (Len(r) >= 2 /\ r[1] \in Schemes /\ r[2] \in Authorities)

\* C4: a URL whose resolved host is not the origin host, given in absolute
\* or protocol-relative form, is returned exactly as it was passed.
C4_ThirdPartyUntouched ==
    (/\ upc \in {"rebased", "mapped", "rewritten"}
     /\ IsAbsoluteForm(raw)
     /\ ParseUrl(NormalizeRaw(raw), OriginHost).ok
     /\ ParseUrl(NormalizeRaw(raw), OriginHost).host # OriginHost)
    => rebased = raw

\* C5: for an absolute origin-host URL whose path starts with the base path,
\* the re-based URL does not contain the origin host, and requesting its path
\* on the public origin makes the dispatcher derive the original path.
C5_RoundTrip ==
    (/\ upc \in {"mapped", "rewritten"}
     /\ IsAbsoluteForm(raw)
     /\ ParseUrl(NormalizeRaw(raw), OriginHost).ok
     /\ ParseUrl(NormalizeRaw(raw), OriginHost).host = OriginHost
     /\ StartsWith(ParseUrl(NormalizeRaw(raw), OriginHost).pathname, ORIGIN_BASE))
    => /\ \A i \in 1..Len(rebased) : rebased[i] # "//W"
       /\ mapped = ParseUrl(NormalizeRaw(raw), OriginHost).pathname

\* C10: for an absolute origin-host URL made of scheme, host, base path and
\* any tail, the text rule 1 puts in its place is rewriteAbsoluteUrl of it.
C10_Rule1IsRebase ==
    (/\ upc = "rewritten"
     /\ MatchesAt(1, raw, 1)
     /\ MatchEnd(1, raw, 1) = Len(raw))
    => ruleOut = rebased

(* ===================== properties of the dispatcher =================== *)

\* C6: a path that starts with the base path maps to itself, any other path
\* to base path + path, and mapping the result again changes nothing.
C6_NoDoublePrefix ==
    pc \in {"awaiting", "returned", "threw"}
    => LET p == req[1].pathname
           t == target[1].path
       IN  /\ StartsWith(p, ORIGIN_BASE) => t = p
           /\ ~StartsWith(p, ORIGIN_BASE) => t = ORIGIN_BASE \o p
           /\ originPath(t) = t

\* a request whose path is already under the base path was mapped
C6_Witness ==
    /\ pc = "awaiting"
    /\ StartsWith(req[1].pathname, ORIGIN_BASE)
    /\ Len(req[1].pathname) > Len(ORIGIN_BASE)

\* C7: every response returned, on every branch, has no CSP header and has
\* the proxy marker, Access-Control-Allow-Origin = public origin and
\* Access-Control-Allow-Credentials = true.
C7_CommonHeaders ==
    pc = "returned"
    => LET h == response[1].headers
       IN  /\ "content-security-policy" \notin DOMAIN h
           /\ "content-security-policy-report-only" \notin DOMAIN h
           /\ "x-proxy-by" \in DOMAIN h
           /\ h["x-proxy-by"] = <<"cf-worker-mask">>
           /\ "access-control-allow-origin" \in DOMAIN h
           /\ h["access-control-allow-origin"] = MY_DOMAIN
           /\ "access-control-allow-credentials" \in DOMAIN h
           /\ h["access-control-allow-credentials"] = <<"true">>

\* a passed-through response whose origin sent CSP and its own CORS header
C7_Witness ==
    /\ pc = "returned"
    /\ response[1].body = "origin"
    /\ {"content-security-policy", "content-security-policy-report-only",
        "access-control-allow-origin"} \subseteq DOMAIN originResp[1].headers

\* C8: when fetch() fails the handler returns a failure response, and
\* fetch() was called exactly once.
C8_FetchFailureAnswered ==
    pc = "threw" => (response # <<>> /\ attempts = 1)

====
